---- MODULE Spec2Model ----
(***************************************************************************)
(* Model of recipe-manager's UnitConverter (src/unit_converter.py): the    *)
(* process-wide conversion table with its two caches (the class attribute  *)
(* _conversion_factors and the lru_cache slot of _get_conversion_factors), *)
(* the convert algorithm with its depth-first path search, the two query   *)
(* operations and the table switch; and of RecipeManager (src/main.py):   *)
(* the price calculation that calls convert, and the commands on the       *)
(* recipe tree.                                                            *)
(*                                                                         *)
(* Numbers are exact rationals n/d tagged with their Python type; float    *)
(* rounding is not modelled, so every equality below is between values     *)
(* that the code computes by the same sequence of operations.              *)
(***************************************************************************)
EXTENDS Integers, Sequences, FiniteSets, TLC

VARIABLES files, conversion_factors, default_conversion_file, lru_cache,
          ret, reads, last_switch, recipes, current_path

vars == <<files, conversion_factors, default_conversion_file, lru_cache,
          ret, reads, last_switch, recipes, current_path>>

(***************************************************************************)
(* Bounds of the model                                                     *)
(***************************************************************************)
\* largest number of edges of a table drawn by InitConvert
MaxEdges == 4
\* largest number of successful source reads recorded between two switches
MaxReads == 2

(***************************************************************************)
(* Python values                                                           *)
(***************************************************************************)
None == [py |-> "None"]
Dict(t) == [py |-> "dict", v |-> t]

Abs(x) == IF x < 0 THEN -x ELSE x

RECURSIVE GCD(_, _)
GCD(x, y) == IF y = 0 THEN x ELSE GCD(y, x % y)

\* the rational n/d in lowest terms with a positive denominator
Norm(ty, n, d) ==
    LET g == GCD(Abs(n), Abs(d))
        s == IF d < 0 THEN -1 ELSE 1
    IN  [py |-> ty, n |-> (s * n) \div g, d |-> (s * d) \div g]

PyInt(n) == [py |-> "int", n |-> n, d |-> 1]
PyFloat(n, d) == Norm("float", n, d)

\* x * y : int * int is an int, anything else a float
Mul(x, y) ==
    Norm(IF x.py = "int" /\ y.py = "int" THEN "int" ELSE "float",
         x.n * y.n, x.d * y.d)

\* x + y : int + int is an int, anything else a float
Add(x, y) ==
    Norm(IF x.py = "int" /\ y.py = "int" THEN "int" ELSE "float",
         x.n * y.d + y.n * x.d, x.d * y.d)

\* x / y : true division, always a float (y is not zero)
Div(x, y) == Norm("float", x.n * y.d, x.d * y.n)

\* float(x)
Float(x) == [x EXCEPT !.py = "float"]

\* x == y on Python numbers: numeric equality across int and float
NumEq(x, y) == x.n = y.n /\ x.d = y.d

IsZero(x) == x.n = 0

(***************************************************************************)
(* Conversion tables: a dict from unit name to a dict from target unit to  *)
(* factor.  A table is a function whose domain is the set of source keys;  *)
(* each key maps to the sequence of its (target, factor) entries in the    *)
(* iteration order of the inner dict.                                      *)
(***************************************************************************)
HasKey(factors, u) == u \in DOMAIN factors

\* factors.get(u, {})
Entries(factors, u) == IF HasKey(factors, u) THEN factors[u] ELSE <<>>

\* u in factors and t in factors[u]
HasEdge(factors, u, t) ==
    HasKey(factors, u) /\ \E i \in 1..Len(factors[u]) : factors[u][i].t = t

\* factors[u][t]
Factor(factors, u, t) ==
    LET i == CHOOSE j \in 1..Len(factors[u]) : factors[u][j].t = t
    IN  factors[u][i].f

Targets(factors, u) == {Entries(factors, u)[i].t : i \in 1..Len(Entries(factors, u))}

\* every unit name that occurs in the table, as a source key or as a target
UnitsOf(factors) ==
    DOMAIN factors \cup UNION {Targets(factors, u) : u \in DOMAIN factors}

(***************************************************************************)
(* Sources (files) and their contents                                      *)
(***************************************************************************)
Missing == [st |-> "missing"]
BadJson == [st |-> "invalid"]
Json(val) == [st |-> "ok", val |-> val]

\* value of the conversion_file / file_path argument when it is omitted
NoArg == "<None>"

\* the table of the specification's scenario: lb -> oz -> g
LbTable ==
    [u \in {"lb", "oz"} |->
        IF u = "lb" THEN <<[t |-> "oz", f |-> PyInt(16)]>>
                    ELSE <<[t |-> "g", f |-> PyFloat(2835, 100)]>>]

\* the table of the specification's source format example
CupTable ==
    [u \in {"cup", "tbsp"} |->
        IF u = "cup" THEN <<[t |-> "ml", f |-> PyFloat(23659, 100)],
                            [t |-> "tbsp", f |-> PyInt(16)]>>
                     ELSE <<[t |-> "tsp", f |-> PyInt(3)]>>]

\* a table with a factor that is not positive
ZeroTable == [u \in {"lb"} |-> <<[t |-> "g", f |-> PyInt(0)]>>]

DefaultFile == "conversions.json"
Sources == {DefaultFile, "alt.json", "missing.json", "bad.json", "null.json",
            "zero.json"}
\* the conversion_file arguments of the queries: none, a table, an absent
\* source and the null document (set_conversion_file takes every source)
FileArgs == {NoArg, "alt.json", "missing.json", "null.json"}

\* the file systems the stateful specification starts from: the default
\* source is either present or absent, the other sources are fixed
FileSystems ==
    {[s \in Sources |->
        CASE s = DefaultFile    -> d
          [] s = "alt.json"     -> Json(Dict(CupTable))
          [] s = "missing.json" -> Missing
          [] s = "bad.json"     -> BadJson
          [] s = "null.json"    -> Json(None)
          [] s = "zero.json"    -> Json(Dict(ZeroTable))] :
     d \in {Json(Dict(LbTable)), Missing}}

\* the units and the value the calls of the stateful specification use
FileUnits == {"lb", "g"}

(***************************************************************************)
(* functools.lru_cache(maxsize=1) around _get_conversion_factors: a        *)
(* sequence of (key, value) entries, least recently used first             *)
(***************************************************************************)
LruMaxSize == 1

LruHit(lru, key) == \E i \in 1..Len(lru) : lru[i].key = key

LruIndex(lru, key) == CHOOSE i \in 1..Len(lru) : lru[i].key = key

LruGet(lru, key) == lru[LruIndex(lru, key)].val

\* a hit makes the entry the most recently used one
LruTouch(lru, key) ==
    LET i == LruIndex(lru, key)
    IN  SubSeq(lru, 1, i - 1) \o SubSeq(lru, i + 1, Len(lru)) \o <<lru[i]>>

\* a miss that returned normally stores the result, evicting the oldest entry
LruPut(lru, key, val) ==
    LET s == Append(lru, [key |-> key, val |-> val])
    IN  IF Len(s) > LruMaxSize THEN Tail(s) ELSE s

\* the body without lines 28-29: the source is opened on every miss
LoadBody_NoMemo(file_path, cf, dflt, fs) ==
    LET path == IF file_path = NoArg THEN dflt ELSE file_path
        doc  == fs[path]
    IN  CASE doc.st = "missing" ->
               [exc |-> "FileNotFoundError",
                msg |-> <<"Conversion file not found", path>>,
                val |-> None, cf |-> cf, opened |-> <<path>>, read |-> <<>>]
          [] doc.st = "invalid" ->
               [exc |-> "ValueError",
                msg |-> <<"Invalid JSON in conversion file", path>>,
                val |-> None, cf |-> cf, opened |-> <<path>>, read |-> <<>>]
          [] doc.st = "ok" ->
               [exc |-> "none", msg |-> <<>>, val |-> doc.val, cf |-> doc.val,
                opened |-> <<path>>, read |-> <<path>>]

\* the body returning the cached table only to a call with no explicit
\* source: an explicit source is opened and replaces the cached table
LoadBody_ExplicitReload(file_path, cf, dflt, fs) ==
    IF cf # None /\ file_path = NoArg
    THEN [exc |-> "none", msg |-> <<>>, val |-> cf, cf |-> cf,
          opened |-> <<>>, read |-> <<>>]
    ELSE LET path == IF file_path = NoArg THEN dflt ELSE file_path
             doc  == fs[path]
         IN  CASE doc.st = "missing" ->
                    [exc |-> "FileNotFoundError",
                     msg |-> <<"Conversion file not found", path>>,
                     val |-> None, cf |-> cf,
                     opened |-> <<path>>, read |-> <<>>]
               [] doc.st = "invalid" ->
                    [exc |-> "ValueError",
                     msg |-> <<"Invalid JSON in conversion file", path>>,
                     val |-> None, cf |-> cf,
                     opened |-> <<path>>, read |-> <<>>]
               [] doc.st = "ok" ->
                    [exc |-> "none", msg |-> <<>>, val |-> doc.val,
                     cf |-> doc.val,
                     opened |-> <<path>>, read |-> <<path>>]

(***************************************************************************)
(* _get_conversion_factors(file_path), body (lines 28-41), run on a miss   *)
(* of the lru_cache.  Gives the exception or the returned value, the new   *)
(* _conversion_factors, the path it opened and the path it loaded.         *)
(***************************************************************************)
LoadBody(file_path, cf, dflt, fs) ==
    IF cf # None
    THEN [exc |-> "none", msg |-> <<>>, val |-> cf, cf |-> cf,
          opened |-> <<>>, read |-> <<>>]
    ELSE LET path == IF file_path = NoArg THEN dflt ELSE file_path
             doc  == fs[path]
         IN  CASE doc.st = "missing" ->
                    [exc |-> "FileNotFoundError",
                     msg |-> <<"Conversion file not found", path>>,
                     val |-> None, cf |-> cf,
                     opened |-> <<path>>, read |-> <<>>]
               [] doc.st = "invalid" ->
                    [exc |-> "ValueError",
                     msg |-> <<"Invalid JSON in conversion file", path>>,
                     val |-> None, cf |-> cf,
                     opened |-> <<path>>, read |-> <<>>]
               [] doc.st = "ok" ->
                    [exc |-> "none", msg |-> <<>>, val |-> doc.val,
                     cf |-> doc.val,
                     opened |-> <<path>>, read |-> <<path>>]

\* the decorated _get_conversion_factors: the lru_cache in front of the body
get_conversion_factors(file_path, cf, lru, dflt, fs) ==
    IF LruHit(lru, file_path)
    THEN [exc |-> "none", msg |-> <<>>, val |-> LruGet(lru, file_path),
          cf |-> cf, lru |-> LruTouch(lru, file_path),
          opened |-> <<>>, read |-> <<>>]
    ELSE LET b == LoadBody(file_path, cf, dflt, fs)
         IN  [exc |-> b.exc, msg |-> b.msg, val |-> b.val, cf |-> b.cf,
              lru |-> IF b.exc = "none" THEN LruPut(lru, file_path, b.val)
                                        ELSE lru,
              opened |-> b.opened, read |-> b.read]

(***************************************************************************)
(* convert: the nested find_conversion_path (lines 93-110).  The search    *)
(* state st carries the shared visited set and, as a record of the run,    *)
(* the sequence of units find_conversion_path was called on.               *)
(***************************************************************************)
RECURSIVE find_conversion_path(_, _, _, _)
RECURSIVE try_intermediates(_, _, _, _, _)

\* the loop with a visited set that is copied, not shared, between the
\* branches of one unit
RECURSIVE try_intermediates_Unshared(_, _, _, _, _)
try_intermediates_Unshared(factors, current_unit, target_unit, i, st) ==
    LET es == Entries(factors, current_unit)
    IN  IF i > Len(es)
        THEN [found |-> FALSE, path |-> <<>>, st |-> st]
        ELSE IF es[i].t \in st.visited
        THEN try_intermediates_Unshared(factors, current_unit, target_unit,
                                        i + 1, st)
        ELSE LET r == find_conversion_path(factors, es[i].t, target_unit, st)
             IN  IF r.found
                 THEN [found |-> TRUE,
                       path  |-> <<<<current_unit, es[i].t, es[i].f>>>> \o r.path,
                       st    |-> r.st]
                 ELSE try_intermediates_Unshared(
                          factors, current_unit, target_unit, i + 1,
                          [visited |-> st.visited, calls |-> r.st.calls])

\* the loop returning the result of the first unvisited neighbour
RECURSIVE try_intermediates_FirstOnly(_, _, _, _, _)
try_intermediates_FirstOnly(factors, current_unit, target_unit, i, st) ==
    LET es == Entries(factors, current_unit)
    IN  IF i > Len(es)
        THEN [found |-> FALSE, path |-> <<>>, st |-> st]
        ELSE IF es[i].t \in st.visited
        THEN try_intermediates_FirstOnly(factors, current_unit, target_unit,
                                         i + 1, st)
        ELSE LET r == find_conversion_path(factors, es[i].t, target_unit, st)
             IN  IF r.found
                 THEN [found |-> TRUE,
                       path  |-> <<<<current_unit, es[i].t, es[i].f>>>> \o r.path,
                       st    |-> r.st]
                 ELSE [found |-> FALSE, path |-> <<>>, st |-> r.st]

\* the loop returning the neighbour's path without the edge that leads to it
RECURSIVE try_intermediates_NoPrefix(_, _, _, _, _)
try_intermediates_NoPrefix(factors, current_unit, target_unit, i, st) ==
    LET es == Entries(factors, current_unit)
    IN  IF i > Len(es)
        THEN [found |-> FALSE, path |-> <<>>, st |-> st]
        ELSE IF es[i].t \in st.visited
        THEN try_intermediates_NoPrefix(factors, current_unit, target_unit,
                                        i + 1, st)
        ELSE LET r == find_conversion_path(factors, es[i].t, target_unit, st)
             IN  IF r.found
                 THEN [found |-> TRUE, path |-> r.path, st |-> r.st]
                 ELSE try_intermediates_NoPrefix(factors, current_unit,
                                                 target_unit, i + 1, r.st)

\* the loop that, once the entries of current_unit are used up, also goes
\* back along an edge that leads to current_unit, with the reciprocal factor
RECURSIVE try_intermediates_BothWays(_, _, _, _, _)
try_intermediates_BothWays(factors, current_unit, target_unit, i, st) ==
    LET es == Entries(factors, current_unit)
    IN  IF i > Len(es)
        THEN LET back == {k \in DOMAIN factors \ st.visited :
                            /\ HasEdge(factors, k, current_unit)
                            /\ \/ k = target_unit
                               \/ find_conversion_path(factors, k, target_unit,
                                                       st).found}
             IN  IF back = {}
                 THEN [found |-> FALSE, path |-> <<>>, st |-> st]
                 ELSE LET k == CHOOSE u \in back : TRUE
                          r == IF k = target_unit
                               THEN [found |-> TRUE, path |-> <<>>, st |-> st]
                               ELSE find_conversion_path(factors, k,
                                                         target_unit, st)
                      IN  [found |-> TRUE,
                           path  |-> <<<<current_unit, k,
                                         Div(PyInt(1),
                                             Factor(factors, k, current_unit))>>>>
                                     \o r.path,
                           st    |-> r.st]
        ELSE IF es[i].t \in st.visited
        THEN try_intermediates_BothWays(factors, current_unit, target_unit,
                                        i + 1, st)
        ELSE LET r == find_conversion_path(factors, es[i].t, target_unit, st)
             IN  IF r.found
                 THEN [found |-> TRUE,
                       path  |-> <<<<current_unit, es[i].t, es[i].f>>>> \o r.path,
                       st    |-> r.st]
                 ELSE try_intermediates_BothWays(factors, current_unit,
                                                 target_unit, i + 1, r.st)

\* the loop going through the entries of current_unit from the last one to
\* the first
RECURSIVE try_intermediates_LastFirst(_, _, _, _, _)
try_intermediates_LastFirst(factors, current_unit, target_unit, i, st) ==
    LET es == Entries(factors, current_unit)
        j  == Len(es) - i + 1
    IN  IF i > Len(es)
        THEN [found |-> FALSE, path |-> <<>>, st |-> st]
        ELSE IF es[j].t \in st.visited
        THEN try_intermediates_LastFirst(factors, current_unit, target_unit,
                                         i + 1, st)
        ELSE LET r == find_conversion_path(factors, es[j].t, target_unit, st)
             IN  IF r.found
                 THEN [found |-> TRUE,
                       path  |-> <<<<current_unit, es[j].t, es[j].f>>>> \o r.path,
                       st    |-> r.st]
                 ELSE try_intermediates_LastFirst(factors, current_unit,
                                                  target_unit, i + 1, r.st)

\* lines 104-110: the loop over factors.get(current_unit, {}), from entry i on
try_intermediates(factors, current_unit, target_unit, i, st) ==
    LET es == Entries(factors, current_unit)
    IN  IF i > Len(es)
        THEN [found |-> FALSE, path |-> <<>>, st |-> st]
        ELSE IF es[i].t \in st.visited
        THEN try_intermediates(factors, current_unit, target_unit, i + 1, st)
        ELSE LET r == find_conversion_path(factors, es[i].t, target_unit, st)
             IN  IF r.found
                 THEN [found |-> TRUE,
                       path  |-> <<<<current_unit, es[i].t, es[i].f>>>> \o r.path,
                       st    |-> r.st]
                 ELSE try_intermediates(factors, current_unit, target_unit,
                                        i + 1, r.st)

\* the search whose base case also takes an entry target_unit -> current_unit,
\* with the reciprocal of its factor
find_conversion_path_ReverseBase(factors, current_unit, target_unit, st) ==
    LET st1 == [visited |-> st.visited \cup {current_unit},
                calls   |-> Append(st.calls, current_unit)]
    IN  IF HasEdge(factors, current_unit, target_unit)
        THEN [found |-> TRUE,
              path  |-> <<<<current_unit, target_unit,
                            Factor(factors, current_unit, target_unit)>>>>,
              st    |-> st1]
        ELSE IF HasEdge(factors, target_unit, current_unit)
        THEN [found |-> TRUE,
              path  |-> <<<<current_unit, target_unit,
                            Div(PyInt(1),
                                Factor(factors, target_unit, current_unit))>>>>,
              st    |-> st1]
        ELSE try_intermediates(factors, current_unit, target_unit, 1, st1)

\* lines 93-110
find_conversion_path(factors, current_unit, target_unit, st) ==
    LET st1 == [visited |-> st.visited \cup {current_unit},
                calls   |-> Append(st.calls, current_unit)]
    IN  IF HasEdge(factors, current_unit, target_unit)
        THEN [found |-> TRUE,
              path  |-> <<<<current_unit, target_unit,
                            Factor(factors, current_unit, target_unit)>>>>,
              st    |-> st1]
        ELSE try_intermediates(factors, current_unit, target_unit, 1, st1)

\* the result multiplied by the last factor of the path only
ApplyPath_LastOnly(result, path) ==
    IF path = <<>> THEN result ELSE Mul(result, path[Len(path)][3])

\* lines 114-116: result = value; for ... in path: result *= factor
RECURSIVE ApplyPath(_, _)
ApplyPath(result, path) ==
    IF path = <<>> THEN result
    ELSE ApplyPath(Mul(result, Head(path)[3]), Tail(path))

NoSearch == [visited |-> {}, calls |-> <<>>]

Outcome(exc, msg, val, via, path, st) ==
    [exc |-> exc, msg |-> msg, val |-> val, via |-> via, path |-> path,
     calls |-> st.calls]

\* line 81: from_unit == to_unit
IsIdentity_Removed(from_unit, to_unit) == FALSE

IsIdentity(from_unit, to_unit) == from_unit = to_unit

\* line 90: value / factors[to_unit][from_unit]
ReverseResult_Mul(value, factor) == Mul(value, factor)

ReverseResult(value, factor) == Div(value, factor)

\* convert with the graph search tried before the reverse lookup
ConvertOn_SearchFirst(factors, value, from_unit, to_unit) ==
    IF IsIdentity(from_unit, to_unit)
    THEN Outcome("none", <<>>, Float(value), "identity", <<>>, NoSearch)
    ELSE IF factors.py # "dict"
    THEN Outcome("TypeError", <<"argument of type is not iterable">>, None,
                 "direct", <<>>, NoSearch)
    ELSE LET fs == factors.v
             r  == find_conversion_path(fs, from_unit, to_unit, NoSearch)
         IN  IF HasEdge(fs, from_unit, to_unit)
             THEN Outcome("none", <<>>,
                          Mul(value, Factor(fs, from_unit, to_unit)),
                          "direct", <<>>, NoSearch)
             ELSE IF r.found
             THEN Outcome("none", <<>>, ApplyPath(value, r.path),
                          "search", r.path, r.st)
             ELSE IF HasEdge(fs, to_unit, from_unit)
             THEN IF IsZero(Factor(fs, to_unit, from_unit))
                  THEN Outcome("ZeroDivisionError", <<"division by zero">>,
                               None, "reverse", <<>>, NoSearch)
                  ELSE Outcome("none", <<>>,
                               ReverseResult(value, Factor(fs, to_unit, from_unit)),
                               "reverse", <<>>, NoSearch)
             ELSE Outcome("ValueError",
                          <<"No conversion path found", from_unit, to_unit>>,
                          None, "search", <<>>, r.st)

\* convert, lines 80-119, on the loaded factors
ConvertOn(factors, value, from_unit, to_unit) ==
    IF IsIdentity(from_unit, to_unit)
    THEN Outcome("none", <<>>, Float(value), "identity", <<>>, NoSearch)
    ELSE IF factors.py # "dict"
    THEN \* from_unit in None
         Outcome("TypeError", <<"argument of type is not iterable">>, None,
                 "direct", <<>>, NoSearch)
    ELSE LET fs == factors.v
         IN  IF HasEdge(fs, from_unit, to_unit)
             THEN Outcome("none", <<>>,
                          Mul(value, Factor(fs, from_unit, to_unit)),
                          "direct", <<>>, NoSearch)
             ELSE IF HasEdge(fs, to_unit, from_unit)
             THEN IF IsZero(Factor(fs, to_unit, from_unit))
                  THEN Outcome("ZeroDivisionError", <<"division by zero">>,
                               None, "reverse", <<>>, NoSearch)
                  ELSE Outcome("none", <<>>,
                               ReverseResult(value, Factor(fs, to_unit, from_unit)),
                               "reverse", <<>>, NoSearch)
             ELSE LET r == find_conversion_path(fs, from_unit, to_unit, NoSearch)
                  IN  IF r.found
                      THEN Outcome("none", <<>>, ApplyPath(value, r.path),
                                   "search", r.path, r.st)
                      ELSE Outcome("ValueError",
                                   <<"No conversion path found", from_unit, to_unit>>,
                                   None, "search", <<>>, r.st)

\* every unit of the table listed, the units that are only targets too
AvailableOn_AllUnits(factors) ==
    IF factors.py = "dict"
    THEN [exc |-> "none", msg |-> <<>>, val |-> UnitsOf(factors.v)]
    ELSE [exc |-> "AttributeError", msg |-> <<"object has no attribute keys">>,
          val |-> None]

\* get_available_units, line 133: list(factors.keys())
AvailableOn(factors) ==
    IF factors.py = "dict"
    THEN [exc |-> "none", msg |-> <<>>, val |-> DOMAIN factors.v]
    ELSE [exc |-> "AttributeError", msg |-> <<"object has no attribute keys">>,
          val |-> None]

\* the units the given unit converts to, without lines 154-157
CompatibleOn_ForwardOnly(factors, unit) ==
    IF factors.py = "dict"
    THEN [exc |-> "none", msg |-> <<>>, val |-> Targets(factors.v, unit)]
    ELSE [exc |-> "TypeError", msg |-> <<"argument of type is not iterable">>,
          val |-> None]

\* only the units that have an entry for unit, lines 155-157 alone
CompatibleOn_SourcesOnly(factors, unit) ==
    IF factors.py = "dict"
    THEN [exc |-> "none", msg |-> <<>>,
          val |-> {other_unit \in DOMAIN factors.v :
                       unit \in Targets(factors.v, other_unit)}]
    ELSE [exc |-> "TypeError", msg |-> <<"argument of type is not iterable">>,
          val |-> None]

\* the units one or two forward edges away from unit, and those with an
\* entry for unit
CompatibleOn_TwoHops(factors, unit) ==
    IF factors.py = "dict"
    THEN [exc |-> "none", msg |-> <<>>,
          val |-> Targets(factors.v, unit) \cup
                  UNION {Targets(factors.v, t) : t \in Targets(factors.v, unit)}
                  \cup {other_unit \in DOMAIN factors.v :
                            unit \in Targets(factors.v, other_unit)}]
    ELSE [exc |-> "TypeError", msg |-> <<"argument of type is not iterable">>,
          val |-> None]

\* get_compatible_units, lines 148-159
CompatibleOn(factors, unit) ==
    IF factors.py = "dict"
    THEN [exc |-> "none", msg |-> <<>>,
          val |-> Targets(factors.v, unit) \cup
                  {other_unit \in DOMAIN factors.v :
                       unit \in Targets(factors.v, other_unit)}]
    ELSE [exc |-> "TypeError", msg |-> <<"argument of type is not iterable">>,
          val |-> None]

\* the switch without lines 52-53: the caches are not cleared
set_conversion_file_NoClear(file_path, cf, lru, dflt, fs) ==
    LET L == get_conversion_factors(file_path, cf, lru, dflt, fs)
    IN  [exc |-> L.exc, msg |-> L.msg, cf |-> L.cf, lru |-> L.lru,
         dflt |-> IF L.exc = "none" THEN file_path ELSE dflt,
         opened |-> L.opened, read |-> L.read]

\* the switch without line 55: the new source is loaded by the next call
set_conversion_file_Lazy(file_path, cf, lru, dflt, fs) ==
    [exc |-> "none", msg |-> <<>>, cf |-> None, lru |-> <<>>,
     dflt |-> file_path, opened |-> <<>>, read |-> <<>>]

\* the switch that sets the default source before the load, so also when the
\* load fails
set_conversion_file_DefaultFirst(file_path, cf, lru, dflt, fs) ==
    LET L == get_conversion_factors(file_path, None, <<>>, file_path, fs)
    IN  [exc |-> L.exc, msg |-> L.msg, cf |-> L.cf, lru |-> L.lru,
         dflt |-> file_path, opened |-> L.opened, read |-> L.read]

\* set_conversion_file, lines 52-57: clear both caches, load, set the default
set_conversion_file(file_path, cf, lru, dflt, fs) ==
    LET L == get_conversion_factors(file_path, None, <<>>, dflt, fs)
    IN  [exc |-> L.exc, msg |-> L.msg, cf |-> L.cf, lru |-> L.lru,
         dflt |-> IF L.exc = "none" THEN file_path ELSE dflt,
         opened |-> L.opened, read |-> L.read]

(***************************************************************************)
(* RecipeManager's recipe tree (src/main.py).  The nested dictionaries of  *)
(* self.recipes are held flat: folders is the set of the paths of the      *)
(* folders, the root <<>> included, and recipes maps <<path, name>> to the *)
(* data of the recipe stored under name in the folder at path.  A node is  *)
(* named by its path.                                                      *)
(***************************************************************************)
\* load_recipes, lines 42-45: {"folders": {}, "recipes": {}}
EmptyTree == [folders |-> {<<>>}, recipes |-> [k \in {} |-> None]]

\* node["folders"][folder] for every folder of path: a KeyError when a
\* folder of the chain is not there
HasNode(tree, path) ==
    \A n \in 0..Len(path) : SubSeq(path, 1, n) \in tree.folders

\* folder_name in node["folders"]
HasFolder(tree, path, folder_name) == Append(path, folder_name) \in tree.folders

\* recipe_name in node["recipes"]
HasRecipe(tree, path, recipe_name) == <<path, recipe_name>> \in DOMAIN tree.recipes

\* node["folders"] or node["recipes"]: the node is not empty
NotEmpty(tree, path) ==
    \/ \E f \in tree.folders : Len(f) = Len(path) + 1 /\ SubSeq(f, 1, Len(path)) = path
    \/ \E k \in DOMAIN tree.recipes : k[1] = path

\* node["recipes"][recipe_name] = recipe_data
PutRecipe(tree, path, recipe_name, recipe_data) ==
    [tree EXCEPT !.recipes =
        [k \in DOMAIN tree.recipes \cup {<<path, recipe_name>>} |->
            IF k = <<path, recipe_name>> THEN recipe_data ELSE tree.recipes[k]]]

\* del node["recipes"][recipe_name]
DelRecipe(tree, path, recipe_name) ==
    [tree EXCEPT !.recipes =
        [k \in DOMAIN tree.recipes \ {<<path, recipe_name>>} |-> tree.recipes[k]]]

\* node["folders"][folder_name] = {"folders": {}, "recipes": {}}
PutFolder(tree, path, folder_name) ==
    [tree EXCEPT !.folders = @ \cup {Append(path, folder_name)}]

\* del node["folders"][folder_name]: the folder goes with all it holds
DelFolder(tree, path, folder_name) ==
    LET gone == Append(path, folder_name)
        Under(q) == Len(q) >= Len(gone) /\ SubSeq(q, 1, Len(gone)) = gone
    IN  [folders |-> {f \in tree.folders : ~Under(f)},
         recipes |-> [k \in {j \in DOMAIN tree.recipes : ~Under(j[1])} |->
                         tree.recipes[k]]]

\* what an operation on the tree gives: the exception it raised ("none" if
\* it returned), whether it changed the tree or the location, and the tree,
\* the location and the destination folder it ends with
TreeResult(exc, done, tree, path, dest) ==
    [exc |-> exc, done |-> done, recipes |-> tree, current_path |-> path,
     dest |-> dest]

\* get_current_node raises KeyError, lines 55-57
NoCurrentNode(tree, path) == TreeResult("KeyError", FALSE, tree, path, path)

\* enter_folder without the test of line 140
enter_folder_NoTest(tree, path, folder_name) ==
    IF ~HasNode(tree, path) THEN NoCurrentNode(tree, path)
    ELSE TreeResult("none", TRUE, tree, Append(path, folder_name), path)

\* enter_folder, lines 137-145
enter_folder(tree, path, folder_name) ==
    IF ~HasNode(tree, path) THEN NoCurrentNode(tree, path)
    ELSE IF HasFolder(tree, path, folder_name)
    THEN TreeResult("none", TRUE, tree, Append(path, folder_name), path)
    ELSE TreeResult("none", FALSE, tree, path, path)

\* go_up, lines 147-154
go_up(tree, path) ==
    IF path # <<>>
    THEN TreeResult("none", TRUE, tree, SubSeq(path, 1, Len(path) - 1), path)
    ELSE TreeResult("none", FALSE, tree, path, path)

\* create_folder, lines 156-164
create_folder(tree, path, folder_name) ==
    IF ~HasNode(tree, path) THEN NoCurrentNode(tree, path)
    ELSE IF HasFolder(tree, path, folder_name)
    THEN TreeResult("none", FALSE, tree, path, path)
    ELSE TreeResult("none", TRUE, PutFolder(tree, path, folder_name), path, path)

\* delete_folder, lines 475-491; confirm: the answer to the question is y
delete_folder(tree, path, folder_name, confirm) ==
    IF ~HasNode(tree, path) THEN NoCurrentNode(tree, path)
    ELSE IF /\ HasFolder(tree, path, folder_name)
            /\ ~NotEmpty(tree, Append(path, folder_name))
            /\ confirm
    THEN TreeResult("none", TRUE, DelFolder(tree, path, folder_name), path, path)
    ELSE TreeResult("none", FALSE, tree, path, path)

\* create_recipe, lines 236-310, recipe_data being what the user types in
create_recipe(tree, path, recipe_name, recipe_data) ==
    IF ~HasNode(tree, path) THEN NoCurrentNode(tree, path)
    ELSE IF HasRecipe(tree, path, recipe_name)
    THEN TreeResult("none", FALSE, tree, path, path)
    ELSE TreeResult("none", TRUE,
                    PutRecipe(tree, path, recipe_name, recipe_data), path, path)

\* delete_recipe, lines 461-473
delete_recipe(tree, path, recipe_name, confirm) ==
    IF ~HasNode(tree, path) THEN NoCurrentNode(tree, path)
    ELSE IF HasRecipe(tree, path, recipe_name) /\ confirm
    THEN TreeResult("none", TRUE, DelRecipe(tree, path, recipe_name), path, path)
    ELSE TreeResult("none", FALSE, tree, path, path)

(***************************************************************************)
(* move_recipe, lines 493-536.  A destination path is the sequence of its  *)
(* folder names and of the slashes between them, so "/f/.." is             *)
(* <<"/", "f", "/", "..">>.                                                *)
(***************************************************************************)
\* line 502: [p for p in destination_path.split("/") if p]
path_parts(destination_path) ==
    SelectSeq(destination_path, LAMBDA p : p # "/")

\* line 505: destination_path.startswith("/")
IsAbsolute(destination_path) ==
    destination_path # <<>> /\ destination_path[1] = "/"

\* lines 514-527: the loop over path_parts, from part i on; dest_node is the
\* node at full_path all along
RECURSIVE navigate(_, _, _, _)
navigate(tree, parts, i, full_path) ==
    IF i > Len(parts) THEN [found |-> TRUE, full_path |-> full_path]
    ELSE IF parts[i] = ".."
    THEN navigate(tree, parts, i + 1,
                  IF full_path # <<>>
                  THEN SubSeq(full_path, 1, Len(full_path) - 1)
                  ELSE full_path)
    ELSE IF HasFolder(tree, full_path, parts[i])
    THEN navigate(tree, parts, i + 1, Append(full_path, parts[i]))
    ELSE [found |-> FALSE, full_path |-> full_path]

\* lines 530-532: store under the destination, then delete from the current
\* folder
perform_move(tree, path, recipe_name, dest) ==
    DelRecipe(PutRecipe(tree, dest, recipe_name,
                        tree.recipes[<<path, recipe_name>>]),
              path, recipe_name)

move_recipe(tree, path, recipe_name, destination_path) ==
    IF ~HasNode(tree, path) THEN NoCurrentNode(tree, path)
    ELSE IF ~HasRecipe(tree, path, recipe_name)
    THEN TreeResult("none", FALSE, tree, path, path)
    ELSE LET n == navigate(tree, path_parts(destination_path), 1,
                           IF IsAbsolute(destination_path) THEN <<>> ELSE path)
         IN  IF ~n.found
             THEN TreeResult("none", FALSE, tree, path, n.full_path)
             ELSE TreeResult("none", TRUE,
                      perform_move(tree, path, recipe_name, n.full_path),
                      path, n.full_path)

(***************************************************************************)
(* State.  ret is the record of the last call: its arguments, the          *)
(* exception it raised ("none" if it returned), the value it returned, the *)
(* table the loader gave it, the branch of convert that answered, the path *)
(* and the calls of the search, and the sources the call opened and read.  *)
(* reads lists the sources loaded since the last table switch began;       *)
(* last_switch is the argument and the outcome of the last table switch    *)
(* and the value of _conversion_factors when it was called.                *)
(***************************************************************************)
NoCall ==
    [op |-> "none", file |-> NoArg, value |-> None, from_unit |-> "",
     to_unit |-> "", unit |-> "", exc |-> "none", msg |-> <<>>, val |-> None,
     via |-> "", path |-> <<>>, calls |-> <<>>, factors |-> None,
     opened |-> <<>>, read |-> <<>>, prices |-> <<>>]

NoSwitch == [file |-> NoArg, ok |-> FALSE, before |-> None]

Values == {PyInt(1), PyInt(3)}
FileValues == {PyInt(2)}

Init ==
    /\ files \in FileSystems
    /\ conversion_factors = None
    /\ default_conversion_file = DefaultFile
    /\ lru_cache = <<>>
    /\ ret = NoCall
    /\ reads = <<>>
    /\ last_switch = NoSwitch
    /\ recipes = EmptyTree
    /\ current_path = <<>>

\* UnitConverter.convert(value, from_unit, to_unit, conversion_file)
Convert(value, from_unit, to_unit, conversion_file) ==
    LET L == get_conversion_factors(conversion_file, conversion_factors,
                                    lru_cache, default_conversion_file, files)
        R == IF L.exc # "none"
             THEN Outcome(L.exc, L.msg, None, "load", <<>>, NoSearch)
             ELSE ConvertOn(L.val, value, from_unit, to_unit)
    IN  /\ Len(reads \o L.read) <= MaxReads
        /\ conversion_factors' = L.cf
        /\ lru_cache' = L.lru
        /\ reads' = reads \o L.read
        /\ ret' = [NoCall EXCEPT !.op = "convert", !.file = conversion_file,
                       !.value = value, !.from_unit = from_unit,
                       !.to_unit = to_unit, !.exc = R.exc, !.msg = R.msg,
                       !.val = R.val, !.via = R.via, !.path = R.path,
                       !.calls = R.calls, !.factors = L.val,
                       !.opened = L.opened, !.read = L.read]
        /\ UNCHANGED <<files, default_conversion_file, last_switch,
                       recipes, current_path>>

\* UnitConverter.get_available_units(conversion_file)
GetAvailableUnits(conversion_file) ==
    LET L == get_conversion_factors(conversion_file, conversion_factors,
                                    lru_cache, default_conversion_file, files)
        R == IF L.exc # "none"
             THEN [exc |-> L.exc, msg |-> L.msg, val |-> None]
             ELSE AvailableOn(L.val)
    IN  /\ Len(reads \o L.read) <= MaxReads
        /\ conversion_factors' = L.cf
        /\ lru_cache' = L.lru
        /\ reads' = reads \o L.read
        /\ ret' = [NoCall EXCEPT !.op = "get_available_units",
                       !.file = conversion_file, !.exc = R.exc, !.msg = R.msg,
                       !.val = R.val, !.factors = L.val,
                       !.opened = L.opened, !.read = L.read]
        /\ UNCHANGED <<files, default_conversion_file, last_switch,
                       recipes, current_path>>

\* UnitConverter.get_compatible_units(unit, conversion_file)
GetCompatibleUnits(unit, conversion_file) ==
    LET L == get_conversion_factors(conversion_file, conversion_factors,
                                    lru_cache, default_conversion_file, files)
        R == IF L.exc # "none"
             THEN [exc |-> L.exc, msg |-> L.msg, val |-> None]
             ELSE CompatibleOn(L.val, unit)
    IN  /\ Len(reads \o L.read) <= MaxReads
        /\ conversion_factors' = L.cf
        /\ lru_cache' = L.lru
        /\ reads' = reads \o L.read
        /\ ret' = [NoCall EXCEPT !.op = "get_compatible_units",
                       !.file = conversion_file, !.unit = unit,
                       !.exc = R.exc, !.msg = R.msg, !.val = R.val,
                       !.factors = L.val,
                       !.opened = L.opened, !.read = L.read]
        /\ UNCHANGED <<files, default_conversion_file, last_switch,
                       recipes, current_path>>

\* UnitConverter.set_conversion_file(file_path)
SetConversionFile(file_path) ==
    LET S == set_conversion_file(file_path, conversion_factors, lru_cache,
                                 default_conversion_file, files)
    IN  /\ conversion_factors' = S.cf
        /\ lru_cache' = S.lru
        /\ default_conversion_file' = S.dflt
        /\ reads' = S.read
        /\ last_switch' = [file |-> file_path, ok |-> S.exc = "none",
                            before |-> conversion_factors]
        /\ ret' = [NoCall EXCEPT !.op = "set_conversion_file",
                       !.file = file_path, !.exc = S.exc, !.msg = S.msg,
                       !.factors = S.cf,
                       !.opened = S.opened, !.read = S.read]
        /\ UNCHANGED <<files, recipes, current_path>>

Next ==
    \/ \E value \in FileValues, from_unit \in FileUnits,
          to_unit \in FileUnits, conversion_file \in FileArgs :
            Convert(value, from_unit, to_unit, conversion_file)
    \/ \E conversion_file \in FileArgs : GetAvailableUnits(conversion_file)
    \/ \E unit \in FileUnits, conversion_file \in FileArgs :
            GetCompatibleUnits(unit, conversion_file)
    \/ \E file_path \in Sources : SetConversionFile(file_path)

Spec == Init /\ [][Next]_vars

(***************************************************************************)
(* The conversion on every table: the default source holds any table of at *)
(* most MaxEdges edges over Units, and convert is called on it with no     *)
(* explicit source.                                                        *)
(***************************************************************************)
Units == {"a", "b", "c", "d"}
UnitSeq == <<"a", "b", "c", "d">>
UnitIdx(u) == CHOOSE i \in 1..Len(UnitSeq) : UnitSeq[i] = u

\* the factor of edge u -> t: a different prime for every edge
Primes == <<2, 3, 5, 7, 11, 13, 17, 19, 23, 29, 31, 37, 41, 43, 47, 53>>
Weight(u, t) == PyInt(Primes[(UnitIdx(u) - 1) * Len(UnitSeq) + UnitIdx(t)])

\* the orders in which n distinct units can be listed under one key
Listings(n) ==
    {s \in [1..n -> Units] : \A i, j \in 1..n : i # j => s[i] # s[j]}

Min(x, y) == IF x < y THEN x ELSE y

\* one listing for each of the first k units, with at most budget edges in all
RECURSIVE Adjacencies(_, _)
Adjacencies(k, budget) ==
    IF k = 0 THEN {<<>>}
    ELSE UNION {{Append(p, s) : p \in Adjacencies(k - 1, budget - n),
                                s \in Listings(n)} :
                n \in 0..Min(budget, Cardinality(Units))}

MkTable(adj) ==
    [u \in {UnitSeq[k] : k \in {j \in 1..Len(UnitSeq) : adj[j] # <<>>}} |->
        [i \in 1..Len(adj[UnitIdx(u)]) |->
            [t |-> adj[UnitIdx(u)][i], f |-> Weight(u, adj[UnitIdx(u)][i])]]]

Tables == {MkTable(adj) : adj \in Adjacencies(Len(UnitSeq), MaxEdges)}

InitConvert ==
    /\ \E table \in Tables :
          files = [s \in Sources |->
                      IF s = DefaultFile THEN Json(Dict(table)) ELSE Missing]
    /\ conversion_factors = None
    /\ default_conversion_file = DefaultFile
    /\ lru_cache = <<>>
    /\ ret = NoCall
    /\ reads = <<>>
    /\ last_switch = NoSwitch
    /\ recipes = EmptyTree
    /\ current_path = <<>>

\* one call in each behaviour: the calls of a sequence are those of Spec
NextConvert ==
    /\ ret.op = "none"
    /\ \/ \E value \in Values, from_unit \in Units, to_unit \in Units :
              Convert(value, from_unit, to_unit, NoArg)
       \/ GetAvailableUnits(NoArg)
       \/ \E unit \in Units : GetCompatibleUnits(unit, NoArg)

SpecConvert == InitConvert /\ [][NextConvert]_vars

(***************************************************************************)
(* Properties of convert on every table (SpecConvert)                      *)
(***************************************************************************)
\* the last call was a convert to which the loader gave a table
Converted == ret.op = "convert" /\ ret.via # "load" /\ ret.factors.py = "dict"

\* the units reachable from the units of S by forward edges that do not
\* enter a unit of avoid
RECURSIVE Closure(_, _, _)
Closure(factors, S, avoid) ==
    LET N == S \cup (UNION {Targets(factors, u) : u \in S} \ avoid)
    IN  IF N = S THEN S ELSE Closure(factors, N, avoid)

\* a chain of one or more table edges leads from u to t
ForwardPath(factors, u, t) ==
    t \in Closure(factors, Targets(factors, u), {})

\* a chain of one or more table edges leads from u to t without touching avoid
ForwardPathAvoiding(factors, u, t, avoid) ==
    /\ u \notin avoid
    /\ t \in Closure(factors, Targets(factors, u) \ avoid, avoid)

ReturnedNumber(x) == ret.exc = "none" /\ NumEq(ret.val, x)

\* C1: identity law: on every table, for every unit u, in the table or not,
\* and every value v, convert(v, u, u) returns a number equal to v.
C1_IdentityLaw ==
    (Converted /\ ret.from_unit = ret.to_unit) => ReturnedNumber(ret.value)

C1_Witness ==
    /\ Converted /\ ret.from_unit = ret.to_unit
    /\ ret.from_unit \notin UnitsOf(ret.factors.v)
    /\ DOMAIN ret.factors.v # {}
    /\ ret.value = PyInt(3)
    /\ ReturnedNumber(PyInt(3))

\* C2 as stated, for two different units a and b: if the table has an edge
\* a -> b with factor f, then convert(1, a, b) == f and convert(1, b, a) == 1/f.
C2_AsStated ==
    (Converted /\ ret.value = PyInt(1) /\ ret.from_unit # ret.to_unit) =>
        /\ HasEdge(ret.factors.v, ret.from_unit, ret.to_unit) =>
              ReturnedNumber(Factor(ret.factors.v, ret.from_unit, ret.to_unit))
        /\ HasEdge(ret.factors.v, ret.to_unit, ret.from_unit) =>
              ReturnedNumber(Div(PyInt(1),
                      Factor(ret.factors.v, ret.to_unit, ret.from_unit)))

\* C2: direct/reverse consistency: if the table has an edge a -> b with
\* factor f and a # b, then convert(1, a, b) == f, and, when the table has no
\* entry b -> a, convert(1, b, a) == 1/f by reverse lookup, also when the
\* table has no entry under b.
C2_DirectReverse ==
    (Converted /\ ret.value = PyInt(1) /\ ret.from_unit # ret.to_unit) =>
        /\ HasEdge(ret.factors.v, ret.from_unit, ret.to_unit) =>
              /\ ReturnedNumber(Factor(ret.factors.v, ret.from_unit, ret.to_unit))
              /\ ret.via = "direct"
        /\ (/\ HasEdge(ret.factors.v, ret.to_unit, ret.from_unit)
            /\ ~HasEdge(ret.factors.v, ret.from_unit, ret.to_unit)) =>
              /\ ReturnedNumber(Div(PyInt(1),
                      Factor(ret.factors.v, ret.to_unit, ret.from_unit)))
              /\ ret.via = "reverse"

C2_Witness ==
    /\ Converted /\ ret.value = PyInt(1)
    /\ HasEdge(ret.factors.v, ret.to_unit, ret.from_unit)
    /\ ~HasKey(ret.factors.v, ret.from_unit)
    /\ ret.via = "reverse"
    /\ ReturnedNumber(Div(PyInt(1),
              Factor(ret.factors.v, ret.to_unit, ret.from_unit)))

\* v * f1 * f2 for the edges a -> b and b -> c
TwoHops(factors, v, a, b, c) ==
    Mul(Mul(v, Factor(factors, a, b)), Factor(factors, b, c))

\* the position of b among the entries under a
EntryIdx(factors, a, b) ==
    CHOOSE i \in 1..Len(factors[a]) : factors[a][i].t = b

\* no unit listed before b under a has a forward path to c that avoids a
NoEarlierRoute(factors, a, b, c) ==
    \A i \in 1..(EntryIdx(factors, a, b) - 1) :
        ~ForwardPathAvoiding(factors, factors[a][i].t, c, {a})

\* C3 as stated, for three different units a, b and c: if a -> b (f1) and
\* b -> c (f2) exist and there is no direct a -> c entry, then
\* convert(v, a, c) == v*f1*f2.
C3_AsStated ==
    (Converted /\ ret.from_unit # ret.to_unit) =>
        \A b \in UnitsOf(ret.factors.v) \ {ret.from_unit, ret.to_unit} :
            (/\ HasEdge(ret.factors.v, ret.from_unit, b)
             /\ HasEdge(ret.factors.v, b, ret.to_unit)
             /\ ~HasEdge(ret.factors.v, ret.from_unit, ret.to_unit)) =>
                ReturnedNumber(TwoHops(ret.factors.v, ret.value,
                                       ret.from_unit, b, ret.to_unit))

\* C3: composition: if a # c, the edges a -> b (f1) and b -> c (f2) exist,
\* the table has neither a direct a -> c entry nor a reverse c -> a entry,
\* and no unit listed before b under a has a forward path to c that avoids a,
\* then convert(v, a, c) == v*f1*f2.
C3_Composition ==
    Converted =>
        \A b \in UnitsOf(ret.factors.v) :
            (/\ ret.from_unit # ret.to_unit
             /\ HasEdge(ret.factors.v, ret.from_unit, b)
             /\ HasEdge(ret.factors.v, b, ret.to_unit)
             /\ ~HasEdge(ret.factors.v, ret.from_unit, ret.to_unit)
             /\ ~HasEdge(ret.factors.v, ret.to_unit, ret.from_unit)
             /\ NoEarlierRoute(ret.factors.v, ret.from_unit, b, ret.to_unit)) =>
                /\ ReturnedNumber(TwoHops(ret.factors.v, ret.value,
                                          ret.from_unit, b, ret.to_unit))
                /\ ret.via = "search"

\* a -> b -> c answers although another unit is listed before b under a
C3_Witness ==
    /\ Converted /\ ret.via = "search" /\ ret.value = PyInt(3)
    /\ \E b \in UnitsOf(ret.factors.v) :
          /\ HasEdge(ret.factors.v, ret.from_unit, b)
          /\ HasEdge(ret.factors.v, b, ret.to_unit)
          /\ EntryIdx(ret.factors.v, ret.from_unit, b) > 1
          /\ NoEarlierRoute(ret.factors.v, ret.from_unit, b, ret.to_unit)
          /\ ReturnedNumber(TwoHops(ret.factors.v, ret.value,
                                    ret.from_unit, b, ret.to_unit))

NoDuplicates(s) == \A i, j \in 1..Len(s) : i # j => s[i] # s[j]

\* C4: cycle safety: on every table, with cycles and self-loops, and for
\* every pair of units, convert ends; the search is called at most once on
\* each unit, so the number of its calls never exceeds the number of
\* distinct units (those of the table and from_unit, where the search starts).
C4_CycleSafety ==
    Converted =>
        /\ NoDuplicates(ret.calls)
        /\ Len(ret.calls) <=
              Cardinality(UnitsOf(ret.factors.v) \cup {ret.from_unit})
        /\ ret.exc \in {"none", "ValueError"}

\* a search through the cycle a -> b -> a for a unit that cannot be reached
C4_Witness ==
    /\ Converted /\ ret.via = "search" /\ ret.exc = "ValueError"
    /\ Len(ret.calls) = 2
    /\ HasEdge(ret.factors.v, ret.calls[1], ret.calls[2])
    /\ HasEdge(ret.factors.v, ret.calls[2], ret.calls[1])
    /\ HasEdge(ret.factors.v, ret.calls[2], ret.calls[2])

NoConversionPath(from_unit, to_unit) ==
    /\ ret.exc = "ValueError"
    /\ ret.msg = <<"No conversion path found", from_unit, to_unit>>

\* C5: convert(v, from, to) fails with NoConversionPath naming from and to
\* exactly when from # to and the table has no edge from -> to, no edge
\* to -> from and no forward path from `from` to `to`; otherwise it returns.
C5_NoConversionPath ==
    Converted =>
        /\ NoConversionPath(ret.from_unit, ret.to_unit) <=>
              (/\ ret.from_unit # ret.to_unit
               /\ ~HasEdge(ret.factors.v, ret.from_unit, ret.to_unit)
               /\ ~HasEdge(ret.factors.v, ret.to_unit, ret.from_unit)
               /\ ~ForwardPath(ret.factors.v, ret.from_unit, ret.to_unit))
        /\ ret.exc = "none" \/ NoConversionPath(ret.from_unit, ret.to_unit)

\* the empty table
C5_Witness ==
    /\ Converted /\ DOMAIN ret.factors.v = {}
    /\ NoConversionPath(ret.from_unit, ret.to_unit)
    /\ ret.calls = <<ret.from_unit>>

RECURSIVE PathProduct(_)
PathProduct(path) ==
    IF path = <<>> THEN PyInt(1)
    ELSE Mul(Head(path)[3], PathProduct(Tail(path)))

\* path is a chain of table edges from from_unit to to_unit in which no unit
\* starts two edges
ValidPath(factors, path, from_unit, to_unit) ==
    /\ Len(path) >= 1
    /\ path[1][1] = from_unit
    /\ path[Len(path)][2] = to_unit
    /\ \A i \in 1..Len(path) :
          /\ HasEdge(factors, path[i][1], path[i][2])
          /\ path[i][3] = Factor(factors, path[i][1], path[i][2])
    /\ \A i \in 1..(Len(path) - 1) : path[i][2] = path[i + 1][1]
    /\ \A i, j \in 1..Len(path) : i # j => path[i][1] # path[j][1]

\* C6: whenever convert returns through the graph search, its result is the
\* value multiplied by the product of the factors along a valid path from
\* from_unit to to_unit.
C6_ValidPath ==
    (Converted /\ ret.via = "search" /\ ret.exc = "none") =>
        /\ ValidPath(ret.factors.v, ret.path, ret.from_unit, ret.to_unit)
        /\ NumEq(ret.val, Mul(ret.value, PathProduct(ret.path)))

\* a path of three edges
C6_Witness ==
    /\ Converted /\ ret.via = "search" /\ ret.exc = "none"
    /\ Len(ret.path) = 3
    /\ ValidPath(ret.factors.v, ret.path, ret.from_unit, ret.to_unit)
    /\ NumEq(ret.val, Mul(ret.value, PathProduct(ret.path)))

(***************************************************************************)
(* Properties of the table cache and of the table switch (Spec)            *)
(***************************************************************************)
HoldsTable(source) == files[source].st = "ok" /\ files[source].val.py = "dict"

\* C7: after set_conversion_file(S) has succeeded on a source S that holds a
\* table, get_available_units() with no explicit source returns the source
\* keys of S's table, whatever calls came before the switch and after it.
C7_SwitchReflected ==
    (/\ ret.op = "get_available_units" /\ ret.file = NoArg
     /\ last_switch.ok /\ HoldsTable(last_switch.file)) =>
        /\ ret.exc = "none"
        /\ ret.val = DOMAIN files[last_switch.file].val.v

\* the switch replaced a cached table that has other keys
C7_Witness ==
    /\ ret.op = "get_available_units" /\ ret.file = NoArg
    /\ last_switch.ok /\ last_switch.file = "alt.json"
    /\ last_switch.before = Dict(LbTable)
    /\ ret.exc = "none"
    /\ ret.val = DOMAIN CupTable
    /\ ret.val # DOMAIN LbTable

QueryOps == {"convert", "get_available_units", "get_compatible_units"}

\* _conversion_factors and the lru_cache entry are one slot holding one table
OneSlot ==
    /\ Len(lru_cache) <= 1
    /\ \A i \in 1..Len(lru_cache) : lru_cache[i].val = conversion_factors

C9_ReadOnce == NoDuplicates(reads)

\* C10: a table switch loads eagerly: set_conversion_file(S) with a source S
\* that does not exist fails in the switch call itself with TableNotFound
\* (FileNotFoundError naming S), and every call that opens a source that does
\* not exist fails with TableNotFound.
C10_EagerSwitch ==
    /\ (ret.op = "set_conversion_file" /\ files[ret.file].st = "missing") =>
          /\ ret.exc = "FileNotFoundError"
          /\ ret.msg = <<"Conversion file not found", ret.file>>
          /\ ret.opened = <<ret.file>>
    /\ \A i \in 1..Len(ret.opened) :
          files[ret.opened[i]].st = "missing" =>
              /\ ret.exc = "FileNotFoundError"
              /\ ret.msg = <<"Conversion file not found", ret.opened[i]>>

\* the switch fails although a table was cached when it was called
C10_Witness ==
    /\ ret.op = "set_conversion_file" /\ ret.file = "missing.json"
    /\ last_switch.before = Dict(LbTable)
    /\ ret.exc = "FileNotFoundError"
    /\ ret.msg = <<"Conversion file not found", "missing.json">>

(***************************************************************************)
(* Properties of the loader's validation and of the queries                *)
(***************************************************************************)
\* a dict of dicts of strictly positive factors
WellFormed(val) ==
    /\ val.py = "dict"
    /\ \A u \in DOMAIN val.v :
          \A i \in 1..Len(val.v[u]) : val.v[u][i].f.n > 0

\* C11: well-formed active table: the loader fails with TableMalformed
\* (ValueError) for every existing source that is not a mapping from unit
\* names to mappings of strictly positive factors, so the cached table, if
\* any, is well-formed in every reachable state.
C11_WellFormedTable ==
    /\ \A i \in 1..Len(ret.read) :
          ~WellFormed(files[ret.read[i]].val) => ret.exc = "ValueError"
    /\ conversion_factors # None => WellFormed(conversion_factors)

\* the table of the default source of SpecConvert
SourceTable == files[DefaultFile].val.v

C13_CompatibleUnits ==
    (ret.op = "get_compatible_units" /\ ret.exc = "none") =>
        ret.val = {t \in UnitsOf(SourceTable) :
                       \/ HasEdge(SourceTable, ret.unit, t)
                       \/ HasEdge(SourceTable, t, ret.unit)}

\* u has a target, a source and a unit at two hops that is left out
C13_Witness ==
    /\ ret.op = "get_compatible_units" /\ ret.exc = "none"
    /\ \E s, t, w \in UnitsOf(SourceTable) :
          /\ Cardinality({s, t, w, ret.unit}) = 4
          /\ HasEdge(SourceTable, s, ret.unit)
          /\ HasEdge(SourceTable, ret.unit, t)
          /\ HasEdge(SourceTable, t, w)
          /\ ret.val = {s, t}

(***************************************************************************)
(* Properties of the conversion_file argument (Spec)                       *)
(***************************************************************************)
\* what a load with no explicit source gives in the current state: the
\* table that calls made without conversion_file use
ActiveTable ==
    LET L == get_conversion_factors(NoArg, conversion_factors, lru_cache,
                                    default_conversion_file, files)
    IN  [exc |-> L.exc, val |-> L.val]

\* C14: the conversion_file argument of convert is used just for that one
\* conversion: convert(v, a, b, conversion_file=X) does not change the table
\* that later calls made without conversion_file use, in every cache state.
C14_JustThisConversion ==
    [][(ret'.op = "convert" /\ ret'.file # NoArg) =>
           ActiveTable' = ActiveTable]_vars

\* the outcome of the last call, had it been computed from the given table
ResultOn(factors) ==
    CASE ret.op = "convert" ->
            ConvertOn(factors, ret.value, ret.from_unit, ret.to_unit)
      [] ret.op = "get_available_units" -> AvailableOn(factors)
      [] ret.op = "get_compatible_units" -> CompatibleOn(factors, ret.unit)

\* C15: the cache is keyed by source identity: a call of convert,
\* get_available_units or get_compatible_units with an explicit
\* conversion_file X that holds a table computes its result from X's table,
\* also when a table of another source is cached.
C15_KeyedBySource ==
    (ret.op \in QueryOps /\ ret.file # NoArg /\ HoldsTable(ret.file)) =>
        LET expected == ResultOn(files[ret.file].val)
        IN  /\ ret.exc = expected.exc
            /\ ret.exc = "none" => ret.val = expected.val

\* C17: the identity step of convert performs no table lookup:
\* convert(v, u, u) opens no source, leaves both caches as they are and
\* returns, also when no table is cached and the default source is missing.
C17_IdentityNoLookup ==
    [][(ret'.op = "convert" /\ ret'.from_unit = ret'.to_unit) =>
           /\ ret'.exc = "none"
           /\ ret'.opened = <<>>
           /\ conversion_factors' = conversion_factors
           /\ lru_cache' = lru_cache]_vars

(***************************************************************************)
(* RecipeManager's price calculation (src/main.py), the caller of convert  *)
(***************************************************************************)
\* largest number of ingredients of a recipe
MaxIngredients == 2

\* RecipeManager.price_data: price per unit of measurement of an ingredient
price_data ==
    [k \in {"flour", "sugar", "salt"} |->
        CASE k = "flour" -> [price |-> PyInt(3), measurement |-> "g"]
          [] k = "sugar" -> [price |-> PyInt(5), measurement |-> "g"]
          [] k = "salt"  -> [price |-> PyInt(7), measurement |-> "lb"]]

\* the entries of recipe_data["ingredients"]; water has no price record
Ingredients ==
    {[name |-> "flour", amount |-> PyInt(2), unit |-> "lb"],
     [name |-> "sugar", amount |-> PyInt(2), unit |-> "g"],
     [name |-> "salt",  amount |-> PyInt(2), unit |-> "g"],
     [name |-> "water", amount |-> PyInt(1), unit |-> "cup"]}

Recipes ==
    UNION {{r \in [1..n -> Ingredients] :
               \A i, j \in 1..n : i # j => r[i].name # r[j].name} :
           n \in 0..MaxIngredients}

\* UnitConverter.convert(value, from_unit, to_unit) as its caller sees it:
\* the outcome and the caches after the call
convert(value, from_unit, to_unit, cf, lru, dflt, fs) ==
    LET L == get_conversion_factors(NoArg, cf, lru, dflt, fs)
        R == IF L.exc # "none"
             THEN Outcome(L.exc, L.msg, None, "load", <<>>, NoSearch)
             ELSE ConvertOn(L.val, value, from_unit, to_unit)
    IN  [exc |-> R.exc, val |-> R.val, cf |-> L.cf, lru |-> L.lru,
         opened |-> L.opened, read |-> L.read]

\* lines 101-106 without the try/except: the exception of convert leaves
\* calculate_ingredient_price
converted_price_Propagate(c, price_per_unit) ==
    [exc |-> c.exc, conv |-> c.exc,
     price |-> IF c.exc = "none" THEN Mul(c.val, price_per_unit) ELSE None,
     cf |-> c.cf, lru |-> c.lru, opened |-> c.opened, read |-> c.read]

\* lines 101-106: converted_amount * price_per_unit, or None when the call c
\* of convert raised
converted_price(c, price_per_unit) ==
    [exc |-> "none", conv |-> c.exc,
     price |-> IF c.exc = "none" THEN Mul(c.val, price_per_unit) ELSE None,
     cf |-> c.cf, lru |-> c.lru, opened |-> c.opened, read |-> c.read]

\* RecipeManager.calculate_ingredient_price, lines 90-110
calculate_ingredient_price(ingredient, cf, lru, dflt, fs) ==
    LET idle == [cf |-> cf, lru |-> lru, opened |-> <<>>, read |-> <<>>]
    IN  IF ingredient.name \in DOMAIN price_data
        THEN LET price_info == price_data[ingredient.name]
                 price_unit == price_info.measurement
             IN  IF /\ ingredient.unit # price_unit
                    /\ ingredient.unit # "" /\ price_unit # ""
                 THEN converted_price(
                          convert(ingredient.amount, ingredient.unit,
                                  price_unit, cf, lru, dflt, fs),
                          price_info.price)
                 ELSE [exc |-> "none", conv |-> "not called",
                       price |-> Mul(ingredient.amount, price_info.price)]
                      @@ idle
        ELSE [exc |-> "none", conv |-> "not called", price |-> None] @@ idle

\* lines 124-129: the price p of the ingredient added to the total, or the
\* ingredient added to missing_prices
add_price(acc, ingredient_name, p) ==
    [exc |-> p.exc,
     total_price |-> IF p.exc = "none" /\ p.price # None
                     THEN Add(acc.total_price, p.price)
                     ELSE acc.total_price,
     missing_prices |-> IF p.exc = "none" /\ p.price = None
                        THEN Append(acc.missing_prices, ingredient_name)
                        ELSE acc.missing_prices,
     prices |-> Append(acc.prices, [conv |-> p.conv, price |-> p.price]),
     cf |-> p.cf, lru |-> p.lru,
     opened |-> acc.opened \o p.opened,
     read |-> acc.read \o p.read]

\* lines 120-129: the loop over the ingredients, from ingredient i on; an
\* exception of calculate_ingredient_price would leave the loop
RECURSIVE price_loop(_, _, _, _, _)
price_loop(recipe, i, acc, dflt, fs) ==
    IF i > Len(recipe) \/ acc.exc # "none" THEN acc
    ELSE price_loop(recipe, i + 1,
             add_price(acc, recipe[i].name,
                       calculate_ingredient_price(recipe[i], acc.cf, acc.lru,
                                                  dflt, fs)),
             dflt, fs)

\* lines 131-135: None when an exception left the loop or every ingredient
\* is missing, the total otherwise
returned_total(recipe, acc) ==
    IF acc.exc # "none" THEN [acc EXCEPT !.total_price = None]
    ELSE IF /\ acc.missing_prices # <<>>
            /\ Len(acc.missing_prices) = Len(recipe)
    THEN [acc EXCEPT !.total_price = None]
    ELSE acc

\* the state of calculate_recipe_price before the loop, lines 117-118
price_start(cf, lru) ==
    [exc |-> "none", total_price |-> PyFloat(0, 1),
     missing_prices |-> <<>>, prices |-> <<>>,
     cf |-> cf, lru |-> lru, opened |-> <<>>, read |-> <<>>]

\* RecipeManager.calculate_recipe_price, lines 112-135
calculate_recipe_price(recipe, cf, lru, dflt, fs) ==
    IF recipe = <<>>
    THEN [price_start(cf, lru) EXCEPT !.total_price = None]
    ELSE returned_total(recipe,
             price_loop(recipe, 1, price_start(cf, lru), dflt, fs))

\* RecipeManager.calculate_recipe_price(recipe_data)
CalculateRecipePrice(recipe) ==
    LET R == calculate_recipe_price(recipe, conversion_factors, lru_cache,
                                    default_conversion_file, files)
    IN  /\ Len(reads \o R.read) <= MaxReads
        /\ conversion_factors' = R.cf
        /\ lru_cache' = R.lru
        /\ reads' = reads \o R.read
        /\ ret' = [NoCall EXCEPT !.op = "calculate_recipe_price",
                       !.exc = R.exc, !.val = R.total_price,
                       !.factors = R.cf, !.opened = R.opened,
                       !.read = R.read, !.prices = R.prices,
                       !.path = recipe]
        /\ UNCHANGED <<files, default_conversion_file, last_switch,
                       recipes, current_path>>

NextPrice ==
    \/ \E file_path \in Sources : SetConversionFile(file_path)
    \/ \E recipe \in Recipes : CalculateRecipePrice(recipe)

SpecPrice == Init /\ [][NextPrice]_vars

(***************************************************************************)
(* The commands on the recipe tree: cd, cd .., mkdir, rmdir, create,       *)
(* delete and move.  The tree starts empty (load_recipes with no file) and *)
(* grows to at most MaxFolders folders and MaxRecipes recipes.             *)
(***************************************************************************)
\* largest number of folders below the root
MaxFolders == 2
\* largest number of recipes in the tree
MaxRecipes == 2
\* largest number of names and slashes in a destination path
MaxPathLen == 3

FolderNames == {"f", "g"}
RecipeNames == {"r"}
\* what a recipe holds (ingredients, instructions, notes)
RecipeData == {"soup", "stew"}

\* the destination paths: names, ".." and slashes, two names never adjacent
DestinationPaths ==
    UNION {{p \in [1..n -> FolderNames \cup {"..", "/"}] :
               \A i \in 1..(n - 1) : p[i] = "/" \/ p[i + 1] = "/"} :
           n \in 0..MaxPathLen}

\* the record of a command on the tree: the name it was given, its outcome
\* and the destination folder it found
TreeCall(op, name, R) ==
    [op |-> op, name |-> name, exc |-> R.exc, done |-> R.done,
     dest |-> R.dest]

TreeStep(op, name, R) ==
    /\ recipes' = R.recipes
    /\ current_path' = R.current_path
    /\ ret' = TreeCall(op, name, R)
    /\ UNCHANGED <<files, conversion_factors, default_conversion_file,
                   lru_cache, reads, last_switch>>

\* cd <folder>
EnterFolder(folder_name) ==
    TreeStep("enter_folder", folder_name,
             enter_folder(recipes, current_path, folder_name))

\* cd ..
GoUp == TreeStep("go_up", "", go_up(recipes, current_path))

\* mkdir <folder>
CreateFolder(folder_name) ==
    /\ Cardinality(recipes.folders) <= MaxFolders
    /\ TreeStep("create_folder", folder_name,
                create_folder(recipes, current_path, folder_name))

\* rmdir <folder>
DeleteFolder(folder_name, confirm) ==
    TreeStep("delete_folder", folder_name,
             delete_folder(recipes, current_path, folder_name, confirm))

\* create <recipe>
CreateRecipe(recipe_name, recipe_data) ==
    /\ Cardinality(DOMAIN recipes.recipes) < MaxRecipes
    /\ TreeStep("create_recipe", recipe_name,
                create_recipe(recipes, current_path, recipe_name, recipe_data))

\* delete <recipe>
DeleteRecipe(recipe_name, confirm) ==
    TreeStep("delete_recipe", recipe_name,
             delete_recipe(recipes, current_path, recipe_name, confirm))

\* move <recipe> <destination_path>
MoveRecipe(recipe_name, destination_path) ==
    TreeStep("move_recipe", recipe_name,
             move_recipe(recipes, current_path, recipe_name, destination_path))

NextTree ==
    \/ \E folder_name \in FolderNames : EnterFolder(folder_name)
    \/ GoUp
    \/ \E folder_name \in FolderNames : CreateFolder(folder_name)
    \/ \E folder_name \in FolderNames, confirm \in BOOLEAN :
          DeleteFolder(folder_name, confirm)
    \/ \E recipe_name \in RecipeNames, recipe_data \in RecipeData :
          CreateRecipe(recipe_name, recipe_data)
    \/ \E recipe_name \in RecipeNames, confirm \in BOOLEAN :
          DeleteRecipe(recipe_name, confirm)
    \/ \E recipe_name \in RecipeNames, destination_path \in DestinationPaths :
          MoveRecipe(recipe_name, destination_path)

\* the tree commands never touch the conversion table: one file system
InitTree == Init /\ files[DefaultFile] = Missing

SpecTree == InitTree /\ [][NextTree]_vars

\* the sum of the prices that are known, added to total
RECURSIVE SumKnown(_, _)
SumKnown(total, prices) ==
    IF prices = <<>> THEN total
    ELSE SumKnown(IF Head(prices).price = None THEN total
                  ELSE Add(total, Head(prices).price),
                  Tail(prices))

ConvertFailed(p) == p.conv \notin {"none", "not called"}

\* C16: the price collaborator degrades instead of aborting: when convert
\* fails, for whatever reason, calculate_ingredient_price gives None and
\* raises nothing, and calculate_recipe_price goes on with the other
\* ingredients and returns the total of those whose price is known (None
\* when none is known).
C16_PriceDegrades ==
    ret.op = "calculate_recipe_price" =>
        /\ ret.exc = "none"
        /\ Len(ret.prices) = Len(ret.path)
        /\ \A i \in 1..Len(ret.prices) :
              ConvertFailed(ret.prices[i]) => ret.prices[i].price = None
        /\ IF \A i \in 1..Len(ret.prices) : ret.prices[i].price = None
           THEN ret.val = None
           ELSE /\ ret.val # None
                /\ NumEq(ret.val, SumKnown(PyInt(0), ret.prices))

\* the conversion of the first ingredient fails on a load error, the second
\* ingredient is priced and the total is its price
C16_Witness ==
    /\ ret.op = "calculate_recipe_price" /\ ret.exc = "none"
    /\ Len(ret.prices) = 2
    /\ ret.prices[1].conv = "FileNotFoundError"
    /\ ret.prices[1].price = None
    /\ ret.prices[2].price # None
    /\ NumEq(ret.val, ret.prices[2].price)

(***************************************************************************)
(* Order of the lookups and direction of the search (SpecConvert)          *)
(***************************************************************************)
\* C18: convert resolves in strict priority order identity > direct edge >
\* reverse edge > graph search: with from = to the result is the value, a
\* self-loop's factor ignored; with an edge a -> b (f) the result is v*f,
\* whatever reverse edge or longer path exists; without it and with an edge
\* b -> a (g) the result is v/g, whatever forward path exists; and only
\* otherwise does the graph search run.
C18_Priority ==
    Converted =>
        LET F == ret.factors.v
            a == ret.from_unit
            b == ret.to_unit
        IN  IF a = b
            THEN ReturnedNumber(ret.value) /\ ret.calls = <<>>
            ELSE IF HasEdge(F, a, b)
            THEN /\ ReturnedNumber(Mul(ret.value, Factor(F, a, b)))
                 /\ ret.calls = <<>>
            ELSE IF HasEdge(F, b, a)
            THEN /\ ReturnedNumber(Div(ret.value, Factor(F, b, a)))
                 /\ ret.calls = <<>>
            ELSE ret.calls # <<>> /\ ret.calls[1] = a

\* a reverse edge c -> a wins over the forward path a -> b -> c
C18_Witness ==
    /\ Converted /\ ret.from_unit # ret.to_unit
    /\ HasEdge(ret.factors.v, ret.to_unit, ret.from_unit)
    /\ ~HasEdge(ret.factors.v, ret.from_unit, ret.to_unit)
    /\ \E b \in UnitsOf(ret.factors.v) \ {ret.from_unit, ret.to_unit} :
          /\ HasEdge(ret.factors.v, ret.from_unit, b)
          /\ HasEdge(ret.factors.v, b, ret.to_unit)
          /\ ~NumEq(ret.val, TwoHops(ret.factors.v, ret.value,
                                     ret.from_unit, b, ret.to_unit))
    /\ ReturnedNumber(Div(ret.value,
              Factor(ret.factors.v, ret.to_unit, ret.from_unit)))

\* the units joined to u by one edge, in either direction
Neighbours(factors, u) ==
    Targets(factors, u) \cup {k \in DOMAIN factors : HasEdge(factors, k, u)}

RECURSIVE Connected(_, _)
\* the units joined to a unit of S by a chain of edges taken in any direction
Connected(factors, S) ==
    LET N == S \cup UNION {Neighbours(factors, u) : u \in S}
    IN  IF N = S THEN S ELSE Connected(factors, N)

\* C19: the graph search follows forward edges only: when from # to, the
\* table has no edge between them in either direction and every chain of
\* edges that connects them takes an edge against its direction, convert
\* fails with NoConversionPath; and a path the search returns is made of
\* table edges taken forward, with their own factors.
C19_ForwardOnly ==
    Converted =>
        LET F == ret.factors.v
            a == ret.from_unit
            b == ret.to_unit
        IN  /\ (/\ a # b
                /\ ~HasEdge(F, a, b) /\ ~HasEdge(F, b, a)
                /\ b \in Connected(F, {a})
                /\ ~ForwardPath(F, a, b)) => NoConversionPath(a, b)
            /\ \A i \in 1..Len(ret.path) :
                  /\ HasEdge(F, ret.path[i][1], ret.path[i][2])
                  /\ ret.path[i][3] = Factor(F, ret.path[i][1], ret.path[i][2])

\* table a -> b, c -> b and the query a -> c
C19_Witness ==
    /\ Converted /\ ret.from_unit # ret.to_unit
    /\ \E m \in UnitsOf(ret.factors.v) \ {ret.from_unit, ret.to_unit} :
          /\ HasEdge(ret.factors.v, ret.from_unit, m)
          /\ HasEdge(ret.factors.v, ret.to_unit, m)
          /\ ret.calls = <<ret.from_unit, m>>
    /\ NoConversionPath(ret.from_unit, ret.to_unit)

\* the search has reached a unit n other than from_unit and the table has an
\* entry to_unit -> n
ReverseAtReached ==
    \E i \in 2..Len(ret.calls) :
        HasEdge(ret.factors.v, ret.to_unit, ret.calls[i])

\* C20 as stated: at a unit n reached during the graph search, an entry
\* to_unit -> n ends the path at n with the reciprocal factor, so that
\* convert succeeds.
C20_AsStated ==
    (Converted /\ ReverseAtReached) => ret.exc = "none"

\* C20: reverse edges are checked at top level only: the base case of the
\* search tests the entry n -> to_unit alone, so an entry to_unit -> n at a
\* unit n reached during the search does not end the path; convert then
\* succeeds only if a forward path exists, its last edge a table edge into
\* to_unit, and with table a -> b, c -> b the query convert(v, a, c) fails
\* with NoConversionPath.
C20_ReverseOnlyAtTop ==
    (Converted /\ ReverseAtReached) =>
        IF ForwardPath(ret.factors.v, ret.from_unit, ret.to_unit)
        THEN /\ ret.exc = "none" /\ ret.path # <<>>
             /\ LET last == ret.path[Len(ret.path)]
                IN  /\ last[2] = ret.to_unit
                    /\ HasEdge(ret.factors.v, last[1], ret.to_unit)
                    /\ last[3] = Factor(ret.factors.v, last[1], ret.to_unit)
        ELSE NoConversionPath(ret.from_unit, ret.to_unit)

\* table a -> m -> n, c -> n and the query a -> c: the search reaches n,
\* where the entry c -> n is of no use
C20_Witness ==
    /\ Converted /\ Len(ret.calls) = 3
    /\ HasEdge(ret.factors.v, ret.to_unit, ret.calls[3])
    /\ ~HasEdge(ret.factors.v, ret.to_unit, ret.calls[2])
    /\ NoConversionPath(ret.from_unit, ret.to_unit)

\* the position of unit u in the sequence of the search's calls, 0 if none
CallIdx(u) ==
    IF \E i \in 1..Len(ret.calls) : ret.calls[i] = u
    THEN CHOOSE i \in 1..Len(ret.calls) : ret.calls[i] = u
    ELSE 0

\* the units at which the edges of the returned path start
PathStarts == {ret.path[i][1] : i \in 1..Len(ret.path)}

\* C21: the search returns the first depth-first path: at each unit of the
\* path the direct edge to to_unit is taken if the table has one; otherwise
\* the path goes on through a neighbour w such that every neighbour listed
\* before w was visited before w and w was entered from this unit; units
\* that were entered and given up have no edge to to_unit; and no unit is
\* entered twice, the visited set being shared by sibling branches.
C21_FirstDepthFirst ==
    (Converted /\ ret.calls # <<>> /\ ret.exc = "none") =>
        LET F == ret.factors.v
        IN  /\ NoDuplicates(ret.calls)
            /\ ret.calls[1] = ret.from_unit
            /\ ret.path # <<>>
            /\ ret.calls[Len(ret.calls)] = ret.path[Len(ret.path)][1]
            /\ \A i \in 1..Len(ret.path) :
                  LET u == ret.path[i][1]
                      w == ret.path[i][2]
                  IN  /\ CallIdx(u) > 0
                      /\ HasEdge(F, u, ret.to_unit) <=> w = ret.to_unit
                      /\ w # ret.to_unit =>
                            /\ CallIdx(w) > CallIdx(u)
                            /\ \A k \in 1..(EntryIdx(F, u, w) - 1) :
                                  /\ CallIdx(F[u][k].t) > 0
                                  /\ CallIdx(F[u][k].t) < CallIdx(w)
            /\ \A j \in 1..Len(ret.calls) :
                  ret.calls[j] \notin PathStarts =>
                      ~HasEdge(F, ret.calls[j], ret.to_unit)

\* the returned path has three edges although a neighbour listed later
\* under from_unit has a direct edge to to_unit
C21_Witness ==
    /\ Converted /\ ret.exc = "none" /\ Len(ret.path) = 3
    /\ \E k \in 2..Len(ret.factors.v[ret.from_unit]) :
          LET c == ret.factors.v[ret.from_unit][k].t
          IN  /\ HasEdge(ret.factors.v, c, ret.to_unit)
              /\ EntryIdx(ret.factors.v, ret.from_unit, ret.path[1][2]) < k

(***************************************************************************)
(* Failed switches and the frame of the queries (Spec)                     *)
(***************************************************************************)
FailedSwitch == ret.op = "set_conversion_file" /\ ret.exc # "none"

\* C22: a failed table switch never installs the failed source: when the
\* load in set_conversion_file(S) fails, the default source stays the one in
\* force before the call and both caches are left empty, and the next load
\* with no explicit source opens that earlier default source.
C22_FailedSwitch ==
    [][/\ FailedSwitch' =>
              /\ default_conversion_file' = default_conversion_file
              /\ conversion_factors' = None
              /\ lru_cache' = <<>>
       /\ (FailedSwitch /\ ret'.op \in QueryOps /\ ret'.file = NoArg) =>
              /\ ret'.opened = <<default_conversion_file>>
              /\ default_conversion_file' = default_conversion_file]_vars

\* a switch to a source that does not exist discarded the cached table, and
\* the next call loaded the default source again
C22_Witness ==
    /\ ret.op \in QueryOps /\ ret.file = NoArg /\ ret.exc = "none"
    /\ last_switch.file = "missing.json" /\ ~last_switch.ok
    /\ last_switch.before = Dict(LbTable)
    /\ ret.opened = <<DefaultFile>> /\ reads = <<DefaultFile>>
    /\ default_conversion_file = DefaultFile
    /\ conversion_factors = Dict(LbTable)

\* C23: read operations have no side effect on the active table: once a
\* table is cached, no call of convert, get_available_units or
\* get_compatible_units, successful or failing, with or without an explicit
\* source, changes the cached table or the default source.
C23_QueriesKeepTable ==
    [][(conversion_factors # None /\ ret'.op \in QueryOps) =>
           /\ conversion_factors' = conversion_factors
           /\ default_conversion_file' = default_conversion_file
           /\ files' = files]_vars

\* a failing convert that names another source leaves the cached table
C23_Witness ==
    /\ ret.op = "convert" /\ ret.file = "alt.json"
    /\ ret.exc = "ValueError" /\ ret.opened = <<>>
    /\ ret.factors = Dict(LbTable)
    /\ conversion_factors = Dict(LbTable)
    /\ default_conversion_file = DefaultFile

(***************************************************************************)
(* get_compatible_units and convert together (SpecConvert)                 *)
(***************************************************************************)
\* what get_compatible_units(unit) returns on the table of the last call
CompatibleWith(unit) == CompatibleOn(ret.factors, unit).val

\* C24: get_compatible_units is symmetric: on every table, for all units a
\* and b, b is in get_compatible_units(a) if and only if a is in
\* get_compatible_units(b).
C24_CompatibleSymmetric ==
    (ret.op = "get_compatible_units" /\ ret.exc = "none") =>
        \A b \in Units \cup UnitsOf(ret.factors.v) :
            b \in ret.val <=> ret.unit \in CompatibleWith(b)

\* b is compatible with a through the entry b -> a alone, a has no entry
C24_Witness ==
    /\ ret.op = "get_compatible_units" /\ ret.exc = "none"
    /\ ~HasKey(ret.factors.v, ret.unit)
    /\ \E b \in ret.val :
          /\ b # ret.unit
          /\ HasEdge(ret.factors.v, b, ret.unit)
          /\ ret.unit \in CompatibleWith(b)
          /\ Cardinality(CompatibleWith(b)) >= 2

\* from_unit and to_unit are compatible, one way or the other
CompatiblePair ==
    \/ ret.to_unit \in CompatibleWith(ret.from_unit)
    \/ ret.from_unit \in CompatibleWith(ret.to_unit)

\* C25: compatible units are always convertible: on every table with
\* non-zero factors and for every b in get_compatible_units(a),
\* convert(v, a, b) and convert(v, b, a) return, by identity, direct or
\* reverse lookup and without a search, and never fail with
\* NoConversionPath.
C25_CompatibleConvertible ==
    (Converted /\ CompatiblePair) =>
        /\ ret.exc = "none"
        /\ ret.calls = <<>>
        /\ ~NoConversionPath(ret.from_unit, ret.to_unit)
        /\ \/ ret.from_unit = ret.to_unit /\ NumEq(ret.val, ret.value)
           \/ /\ HasEdge(ret.factors.v, ret.from_unit, ret.to_unit)
              /\ NumEq(ret.val, Mul(ret.value,
                     Factor(ret.factors.v, ret.from_unit, ret.to_unit)))
           \/ /\ HasEdge(ret.factors.v, ret.to_unit, ret.from_unit)
              /\ NumEq(ret.val, Div(ret.value,
                     Factor(ret.factors.v, ret.to_unit, ret.from_unit)))

\* to_unit is in get_compatible_units(from_unit) only because of the entry
\* to_unit -> from_unit, and convert answers by the reverse lookup
C25_Witness ==
    /\ Converted /\ ret.from_unit # ret.to_unit
    /\ ret.to_unit \in CompatibleWith(ret.from_unit)
    /\ Targets(ret.factors.v, ret.from_unit) = {}
    /\ ret.exc = "none" /\ ret.value = PyInt(3)
    /\ NumEq(ret.val, Div(PyInt(3),
             Factor(ret.factors.v, ret.to_unit, ret.from_unit)))

(***************************************************************************)
(* Properties of the recipe tree (SpecTree)                                *)
(***************************************************************************)
Moved == ret.op = "move_recipe" /\ ret.done

\* C26: move_recipe never loses a recipe: whenever move_recipe(name, path)
\* finds the recipe and resolves path to an existing folder, the folder the
\* recipe is already in included, every recipe stored in the tree before the
\* call is stored in the tree after it, and the moved recipe is stored with
\* unchanged data under its name in the destination folder.
C26_MoveKeepsRecipes ==
    [][Moved' =>
           /\ Cardinality(DOMAIN recipes'.recipes) =
                  Cardinality(DOMAIN recipes.recipes)
           /\ \A k \in DOMAIN recipes.recipes :
                  k # <<current_path, ret'.name>> =>
                      /\ k \in DOMAIN recipes'.recipes
                      /\ recipes'.recipes[k] = recipes.recipes[k]
           /\ HasRecipe(recipes', ret'.dest, ret'.name)
           /\ recipes'.recipes[<<ret'.dest, ret'.name>>] =
                  recipes.recipes[<<current_path, ret'.name>>]]_vars

\* C27: the current location is always valid: after every sequence of cd,
\* cd .., mkdir, rmdir, create, delete and move commands, current_path names
\* a chain of folders that all exist in the tree from the root on, so
\* get_current_node never fails; and a folder leaves the tree only through
\* rmdir, which removes one empty child of the current folder and nothing
\* else.
C27_ValidLocation ==
    [][/\ HasNode(recipes', current_path')
       /\ ret'.exc = "none"
       /\ recipes'.folders # recipes.folders /\ ret'.op = "delete_folder" =>
              LET gone == Append(current_path, ret'.name)
              IN  /\ recipes'.folders = recipes.folders \ {gone}
                  /\ gone \in recipes.folders
                  /\ ~NotEmpty(recipes, gone)
                  /\ recipes'.recipes = recipes.recipes
                  /\ current_path' = current_path
       /\ ~(recipes.folders \subseteq recipes'.folders) =>
              ret'.op = "delete_folder"]_vars

\* rmdir has removed a folder from a folder below the root, where a recipe
\* is stored
C27_Witness ==
    /\ ret.op = "delete_folder" /\ ret.done /\ ret.exc = "none"
    /\ current_path # <<>>
    /\ HasNode(recipes, current_path)
    /\ ~HasFolder(recipes, current_path, ret.name)
    /\ \E k \in DOMAIN recipes.recipes : k[1] = current_path

====
